---- MODULE Spec2Model ----
(***************************************************************************)
(* mntfs (src/mntfs.c): a synthetic directory with one symbolic link per   *)
(* mount of the caller's mount namespace.  The model has one calling       *)
(* thread that runs lookup, readlink, follow_link and readdir one at a     *)
(* time, and an environment that mounts and unmounts concurrently with it. *)
(* The racy list walks (lines 39-45 and 103-112) advance one record per    *)
(* step, so that table changes interleave with them.                       *)
(*                                                                         *)
(* Machine model: LP64 (int is 32 bits, unsigned long is 64 bits), signed  *)
(* overflow wraps (the kernel is built with -fno-strict-overflow).  TLC's  *)
(* integers are 32 bits wide, so an unsigned long is a tuple of four       *)
(* 16-bit limbs, least significant first.                                  *)
(***************************************************************************)
EXTENDS Integers, Sequences, FiniteSets, TLC

\* ------------------------------------------------------------------ bounds
\* Number of vfsmount slots (addresses) the mount subsystem hands out.
MaxMounts == 2

\* readdir calls made on one open file.
MaxCalls == 2

\* Table changes while one call is in flight.
MaxChanges == 2

\* ------------------------------------------------------- program constants
NAME_MAX == 255
INODE_OFFSET == 1000
ROOT_INO == 1
NAME_BUF == 13

LimbBase == 2^16
IntMax == (2^30 - 1) + 2^30

\* ------------------------------------------------------------- C integers
Digits == <<"0", "1", "2", "3", "4", "5", "6", "7", "8", "9">>

IsDigit(c) == \E k \in 1..10 : Digits[k] = c

DigitVal(c) == (CHOOSE k \in 1..10 : Digits[k] = c) - 1

\* An unsigned long: limbs u[1] (low) .. u[4] (high), each in 0..LimbBase-1.
ULZero == <<0, 0, 0, 0>>

\* u * 10 + d in unsigned long arithmetic (modulo 2^64: the carry out of the
\* top limb is dropped, as simple_strtoul's "result = result * base + value").
ULMulAdd(u, d) ==
    LET t1 == u[1] * 10 + d
        t2 == u[2] * 10 + (t1 \div LimbBase)
        t3 == u[3] * 10 + (t2 \div LimbBase)
        t4 == u[4] * 10 + (t3 \div LimbBase)
    IN  <<t1 % LimbBase, t2 % LimbBase, t3 % LimbBase, t4 % LimbBase>>

\* Conversion unsigned long -> int (the argument of find_mount_by_id): the low
\* 32 bits, read as two's complement.
ULongToInt(u) ==
    IF u[2] >= LimbBase \div 2
    THEN (u[2] - LimbBase) * LimbBase + u[1]
    ELSE u[2] * LimbBase + u[1]

\* Conversion int -> unsigned long (the ino argument of mntfs_iget and of
\* filldir): sign extension.
IntToULong(v) ==
    LET lo == v % LimbBase
        hi == ((v - lo) \div LimbBase) % LimbBase
    IN  IF v >= 0 THEN <<lo, hi, 0, 0>>
                  ELSE <<lo, hi, LimbBase - 1, LimbBase - 1>>

\* a + b in int arithmetic, for 0 <= b: wraps past INT_MAX.
IntAdd(a, b) ==
    IF a > IntMax - b THEN (a - IntMax - 1) + (b - IntMax - 1) ELSE a + b

\* ------------------------------------------------------------ text <-> int
\* Names are sequences of one-character strings.
RECURSIVE DecNat(_)
DecNat(n) ==
    IF n < 10 THEN <<Digits[n + 1]>>
    ELSE DecNat(n \div 10) \o <<Digits[(n % 10) + 1]>>

\* printf's "%d" (mount ids are never INT_MIN).
FormatD(v) == IF v < 0 THEN <<"-">> \o DecNat(-v) ELSE DecNat(v)

\* snprintf(name, sizeof(name), "%d", v): what is left in the buffer (at most
\* NAME_BUF - 1 characters) and the returned length.
Snprintf(v) ==
    LET full == FormatD(v)
        kept == IF Len(full) > NAME_BUF - 1 THEN NAME_BUF - 1 ELSE Len(full)
    IN  [buf |-> SubSeq(full, 1, kept), len |-> Len(full)]

\* The bytes filldir is handed: name[0 .. len-1].
SnprintfName(v) ==
    LET r == Snprintf(v)
    IN  SubSeq(r.buf, 1, IF r.len < Len(r.buf) THEN r.len ELSE Len(r.buf))

\* simple_strtoul(cp, &tail, 10): the number of leading decimal digits
\* consumed and their value.
RECURSIVE DigitPrefixLen(_)
DigitPrefixLen(s) ==
    IF s = <<>> \/ ~IsDigit(Head(s)) THEN 0 ELSE 1 + DigitPrefixLen(Tail(s))

RECURSIVE StrToUL(_, _)
StrToUL(s, k) ==
    IF k = 0 THEN ULZero ELSE ULMulAdd(StrToUL(s, k - 1), DigitVal(s[k]))

\* strict_strtoul(cp, 10, &res) of the kernel library: fails (-EINVAL) on an
\* empty string and when no digit was consumed; succeeds when the digits run
\* to the end of the string, or to a single newline that ends the string.
strict_strtoul(s) ==
    LET len  == Len(s)
        tail == DigitPrefixLen(s)
    IN  IF len = 0 THEN [err |-> TRUE, val |-> ULZero]
        ELSE IF tail = 0 THEN [err |-> TRUE, val |-> ULZero]
        ELSE IF tail = len \/ (len = tail + 1 /\ s[tail + 1] = "\n")
             THEN [err |-> FALSE, val |-> StrToUL(s, tail)]
        ELSE [err |-> TRUE, val |-> ULZero]

\* Mutant: an offset that does not clear the root's inode number.
mnt_inode_small(id) == IntAdd(id, ROOT_INO)

\* mnt_inode applied to a mount id.
mnt_inode_of(id) == IntAdd(id, INODE_OFFSET)


\* --------------------------------------------------------------- the world
Mnts == 1..MaxMounts

\* &ns->list, the list head that ends a walk.
HEAD == 0

\* nd->path as the caller of follow_link hands it over: the position being
\* left.  Any other value of nd_path is the vfsmount it designates.
PRIOR == 0

\* Mount ids the mount subsystem hands out (INT_MAX to reach the wrap of
\* mnt_inode).
MountIds == {0, 7, IntMax}

\* d_path of the root of the mount in slot r: its absolute path.
d_path(r) == <<"/", "m", "n", "t", "/", Digits[r + 1]>>

LongName(c0, c) == [k \in 1..(NAME_MAX + 1) |-> IF k = 1 THEN c0 ELSE c]

\* The names the caller asks for.
Names ==
    { FormatD(m) : m \in MountIds } \cup
    { <<>>, <<"x">>, <<"0", "7">>, <<"0", "0">>, <<"7", "x">>, <<"7", "\n">>,
      <<"-", "7">>, <<" ", "7">>, <<"8">>,
      <<"4", "2", "9", "4", "9", "6", "7", "3", "0", "3">>,
      LongName("7", "7"), LongName("0", "7"), LongName("x", "x") }

Ops == {"lookup", "readlink", "follow"}

NoInode == [err |-> FALSE, ino |-> ULZero]

VARIABLES
    ctx,        \* task_nsproxy(current): "no_nsproxy", "no_mnt_ns" or "ok"
    state,      \* per slot: "free" (never allocated, or destroyed) or "live"
    mnt_id,     \* per slot: mnt->mnt_id (what the memory holds)
    mnt_count,  \* per slot: the reference count of the vfsmount
    list,       \* ns->list, in list order
    pc,         \* the calling thread's position
    op,         \* the operation it runs
    name,       \* dentry->d_name
    id,         \* find_mount_by_id's argument
    cur,        \* the walk's cursor (mnt of list_for_each_entry)
    mnt,        \* the handle find returned, HEAD when none
    ret,        \* the operation's return value
    gets,       \* mntget calls the operation made for a record of the walk
    puts,       \* mntput calls the operation made on such a handle
    text,       \* what readlink copied to the caller
    d_inode,    \* what lookup's d_add bound to the dentry
    f_pos,      \* filp->f_pos
    idx,        \* readdir's i
    out,        \* the entries the consumer accepted in this readdir call
    startPos,   \* f_pos when this readdir call began
    refused,    \* the consumer refused an entry in this readdir call
    calls,      \* readdir calls made on this open file
    nd_path,    \* nd->path.mnt
    nd_dentry,  \* nd->path.dentry
    prior_refs, \* references the walk holds on the position it came from
    dcache,     \* dentries kept after their last dput
    chgPre,     \* the table changed between the call and the start of the walk
    chgScan,    \* the table changed since the walk began
    removedPre, \* the requested mount was unmounted before the walk began
    changes,    \* table changes since the call
    walked,     \* this call began a walk of ns->list
    nomem,      \* an allocation or d_path failed in this call
    uaf         \* a walk of this operation read a destroyed vfsmount

tableVars == <<ctx, state, mnt_id, mnt_count, list>>
readdirVars == <<f_pos, idx, out, startPos, refused, calls>>
lookupVars == <<name, id, mnt, gets, puts, text, d_inode, nd_path, nd_dentry,
               prior_refs>>
histVars == <<chgPre, chgScan, removedPre, changes>>
callVars == <<walked, nomem>>
vars == <<ctx, state, mnt_id, mnt_count, list, pc, op, name, id, cur, mnt, ret,
          gets, puts, text, d_inode, f_pos, idx, out, startPos, refused, calls,
          nd_path, nd_dentry, prior_refs, dcache, chgPre, chgScan, removedPre,
          changes, walked, nomem, uaf>>

Init ==
    /\ ctx \in {"no_nsproxy", "no_mnt_ns", "ok"}
    /\ state = [r \in Mnts |-> "free"]
    /\ mnt_id = [r \in Mnts |-> 0]
    /\ mnt_count = [r \in Mnts |-> 0]
    /\ list = <<>>
    /\ pc = "idle"
    /\ op = "none"
    /\ name = <<>>
    /\ id = 0
    /\ cur = HEAD
    /\ mnt = HEAD
    /\ ret = "none"
    /\ gets = 0
    /\ puts = 0
    /\ text = <<>>
    /\ d_inode = NoInode
    /\ f_pos = 0
    /\ idx = 0
    /\ out = <<>>
    /\ startPos = 0
    /\ refused = FALSE
    /\ calls = 0
    /\ nd_path = PRIOR
    /\ nd_dentry = PRIOR
    /\ prior_refs = 1
    /\ dcache = {}
    /\ chgPre = FALSE
    /\ chgScan = FALSE
    /\ removedPre = FALSE
    /\ changes = 0
    /\ walked = FALSE
    /\ nomem = FALSE
    /\ uaf = FALSE

\* ----------------------------------------------------------- list helpers
InList(r) == \E k \in 1..Len(list) : list[k] = r

IndexOf(r) == CHOOSE k \in 1..Len(list) : list[k] = r

Remove(seq, r) == SelectSeq(seq, LAMBDA x : x # r)

TableIds == { mnt_id[list[k]] : k \in 1..Len(list) }

\* list_for_each_entry's first element.
ListFirst == IF list = <<>> THEN HEAD ELSE list[1]

\* mnt->mnt_list.next: the successor while the record is on the list; the
\* record itself once umount has taken it off (list_del_init).
ListNext(r) ==
    IF InList(r)
    THEN (IF IndexOf(r) = Len(list) THEN HEAD ELSE list[IndexOf(r) + 1])
    ELSE r

\* mntget / mntput on the count of one record.
mntget(cnt, r) == [cnt EXCEPT ![r] = @ + 1]

mntput(cnt, r) == [cnt EXCEPT ![r] = @ - 1]

\* The record is destroyed when its last reference goes.
AfterPut(st, cnt, r) == IF cnt[r] <= 1 THEN [st EXCEPT ![r] = "free"] ELSE st


\* ------------------------------------------------------------- environment
\* What a table change does to the history of the operation in flight.
NoteChange(removal, rid) ==
    /\ chgPre' = (chgPre \/ pc = "find")
    /\ chgScan' = (chgScan \/ pc \notin {"idle", "find", "oops"})
    /\ removedPre' = (removedPre \/ (removal /\ pc = "find" /\ rid = id))
    /\ changes' = IF pc \in {"idle", "oops"} THEN changes ELSE changes + 1

\* The table is left alone once the operation has its result: a change then
\* is a change before the next call.  (An open directory may be read again.)
EnvMayAct ==
    /\ pc # "done" \/ op = "readdir"
    /\ pc \in {"idle", "oops"} \/ changes < MaxChanges

\* The allocator hands out the lowest free slot.
FreeSlot(r) ==
    /\ state[r] = "free"
    /\ mnt_count[r] = 0
    /\ \A q \in Mnts : (state[q] = "free" /\ mnt_count[q] = 0) => r <= q

\* mount(2): the mount subsystem allocates a vfsmount with an id no live
\* vfsmount has and adds it to the namespace's list.
Mount(r, m) ==
    /\ ctx = "ok"
    /\ EnvMayAct
    /\ FreeSlot(r)
    /\ \A q \in Mnts : state[q] = "live" => mnt_id[q] # m
    /\ state' = [state EXCEPT ![r] = "live"]
    /\ mnt_id' = [mnt_id EXCEPT ![r] = m]
    /\ mnt_count' = [mnt_count EXCEPT ![r] = 1]
    /\ list' = Append(list, r)
    /\ NoteChange(FALSE, m)
    /\ UNCHANGED <<ctx, pc, op, cur, ret, uaf, dcache>>
    /\ UNCHANGED lookupVars
    /\ UNCHANGED readdirVars
    /\ UNCHANGED callVars

\* umount(2): the record leaves the list and the table's reference is
\* dropped; the record is destroyed when that was the last one.
Unmount(r) ==
    /\ EnvMayAct
    /\ InList(r)
    /\ list' = Remove(list, r)
    /\ mnt_count' = mntput(mnt_count, r)
    /\ state' = AfterPut(state, mnt_count, r)
    /\ NoteChange(TRUE, mnt_id[r])
    /\ UNCHANGED <<ctx, mnt_id, pc, op, cur, ret, uaf, dcache>>
    /\ UNCHANGED lookupVars
    /\ UNCHANGED readdirVars
    /\ UNCHANGED callVars

\* ------------------------------------------------- find_mount_by_dentry
NameTooLong(n) == Len(n) > NAME_MAX

\* Mutants: the rule without its length condition, and the rule left out.
LeadingZeroAny(n) == Len(n) >= 1 /\ n[1] = "0"

LeadingZeroOff(n) == FALSE

LeadingZero(n) == Len(n) > 1 /\ n[1] = "0"

\* Mutant: the leading-zero rule tried before the length check.
ParseNameZeroFirst(n) ==
    IF LeadingZero(n) THEN [err |-> "ENOENT", id |-> 0]
    ELSE IF NameTooLong(n) THEN [err |-> "ENAMETOOLONG", id |-> 0]
    ELSE IF strict_strtoul(n).err THEN [err |-> "ENOENT", id |-> 0]
    ELSE [err |-> "", id |-> ULongToInt(strict_strtoul(n).val)]

\* Lines 54-63: the error the name is rejected with ("" when accepted) and the
\* id handed to find_mount_by_id.
ParseName(n) ==
    IF NameTooLong(n) THEN [err |-> "ENAMETOOLONG", id |-> 0]
    ELSE IF LeadingZero(n) THEN [err |-> "ENOENT", id |-> 0]
    ELSE LET parsed == strict_strtoul(n)
         IN  IF parsed.err THEN [err |-> "ENOENT", id |-> 0]
             ELSE [err |-> "", id |-> ULongToInt(parsed.val)]

\* Mutant: an assignment where the comparison should be.
IdMatchAssign(mid, want) == want # 0

\* Line 41.
IdMatch(mid, want) == mid = want

\* Mutant: the dentry is kept in the cache after its last user.
mntfs_dentry_delete_keep(dentry) == 0

\* mntfs_dentry_delete: 1 tells dput to drop the dentry with its last user.
mntfs_dentry_delete(dentry) == 1

\* The dentry cache's entry for a name, if it kept one.
Cached(n) == { e \in dcache : e.name = n }

\* ---------------------------------------------------------------- the calls
\* lookup, readlink or follow_link is called for a dentry named n.  A lookup
\* the dentry cache can answer never reaches mntfs_lookup.  follow_link first
\* puts the position it was handed (line 159).  Then the name is parsed
\* (lines 54-61).
Start(o, n) ==
    /\ pc = "idle"
    /\ op' = o
    /\ name' = n
    /\ prior_refs' = IF o = "follow" THEN prior_refs - 1 ELSE prior_refs
    /\ IF o = "lookup" /\ Cached(n) # {}
       THEN /\ d_inode' = (CHOOSE e \in Cached(n) : TRUE).inode
            /\ ret' = "OK"
            /\ pc' = "done"
            /\ id' = id
       ELSE /\ d_inode' = d_inode
            /\ IF ParseName(n).err # ""
               THEN ret' = ParseName(n).err /\ pc' = "done" /\ id' = id
               ELSE ret' = ret /\ pc' = "find" /\ id' = ParseName(n).id
    /\ UNCHANGED tableVars
    /\ UNCHANGED readdirVars
    /\ UNCHANGED histVars
    /\ UNCHANGED <<cur, mnt, gets, puts, text, nd_path, nd_dentry, dcache, uaf>>
    /\ UNCHANGED callVars

\* Mutant: only the nsproxy is tested, not its mount namespace.
NsMissingProxyOnly(c) == c = "no_nsproxy"

\* Lines 33-36 and 97-100: ns stays NULL when the task has no nsproxy or the
\* nsproxy has no mount namespace.
NsMissing(c) == c \in {"no_nsproxy", "no_mnt_ns"}

\* find_mount_by_id, lines 33-37, and the walk's first element.
FindEnter ==
    /\ pc = "find"
    /\ IF NsMissing(ctx)
       THEN ret' = "ENOENT" /\ pc' = "done" /\ cur' = cur /\ walked' = walked
       ELSE ret' = ret /\ pc' = "scan" /\ cur' = ListFirst /\ walked' = TRUE
    /\ nomem' = nomem
    /\ UNCHANGED tableVars
    /\ UNCHANGED readdirVars
    /\ UNCHANGED lookupVars
    /\ UNCHANGED histVars
    /\ UNCHANGED <<op, dcache, uaf>>

\* Lines 40-47: one iteration of the walk, or its end.
ScanEnd ==
    /\ pc = "scan"
    /\ cur = HEAD
    /\ ret' = "ENOENT"
    /\ pc' = "done"
    /\ UNCHANGED tableVars
    /\ UNCHANGED readdirVars
    /\ UNCHANGED lookupVars
    /\ UNCHANGED histVars
    /\ UNCHANGED <<op, cur, dcache, uaf>>
    /\ UNCHANGED callVars

ScanStep ==
    /\ pc = "scan"
    /\ cur # HEAD
    /\ uaf' = (uaf \/ state[cur] = "free")
    /\ IF IdMatch(mnt_id[cur], id)
       THEN /\ mnt_count' = mntget(mnt_count, cur)
            /\ mnt' = cur
            /\ gets' = gets + 1
            /\ pc' = "found"
            /\ cur' = cur
       ELSE /\ cur' = ListNext(cur)
            /\ pc' = "scan"
            /\ UNCHANGED <<mnt_count, mnt, gets>>
    /\ UNCHANGED <<ctx, state, mnt_id, list>>
    /\ UNCHANGED readdirVars
    /\ UNCHANGED histVars
    /\ UNCHANGED <<op, name, id, ret, puts, text, d_inode, nd_path,
                   nd_dentry, prior_refs,
                   dcache>>
    /\ UNCHANGED callVars

\* Reading a destroyed vfsmount may also fault: the task dies in the walk and
\* nothing of the call is left.
ScanFault ==
    /\ pc \in {"scan", "rd_scan"}
    /\ cur # HEAD
    /\ state[cur] = "free"
    /\ uaf' = TRUE
    /\ pc' = "oops"
    /\ name' = <<>>
    /\ id' = 0
    /\ cur' = HEAD
    /\ f_pos' = 0
    /\ idx' = 0
    /\ out' = <<>>
    /\ startPos' = 0
    /\ refused' = FALSE
    /\ calls' = 0
    /\ chgPre' = FALSE
    /\ chgScan' = FALSE
    /\ removedPre' = FALSE
    /\ changes' = 0
    /\ walked' = FALSE
    /\ nomem' = FALSE
    /\ UNCHANGED tableVars
    /\ UNCHANGED <<op, mnt, ret, gets, puts, text, d_inode, nd_path,
                   nd_dentry, prior_refs,
                   dcache>>

\* mntfs_iget(sb, ino): the inode number it was asked for, or ERR_PTR(-ENOMEM)
\* when iget_locked found no memory.
mntfs_iget(ino, ok) ==
    IF ok THEN [err |-> FALSE, ino |-> ino] ELSE [err |-> TRUE, ino |-> ULZero]

\* mntfs_lookup, lines 79-83.
LookupBody ==
    /\ pc = "found"
    /\ op = "lookup"
    /\ \E ok \in BOOLEAN :
         /\ d_inode' = mntfs_iget(IntToULong(mnt_inode_of(mnt_id[mnt])), ok)
         /\ nomem' = ~ok
    /\ walked' = walked
    /\ mnt_count' = mntput(mnt_count, mnt)
    /\ state' = AfterPut(state, mnt_count, mnt)
    /\ puts' = puts + 1
    /\ ret' = "OK"
    /\ pc' = "done"
    /\ UNCHANGED <<ctx, mnt_id, list>>
    /\ UNCHANGED readdirVars
    /\ UNCHANGED histVars
    /\ UNCHANGED <<op, name, id, cur, mnt, gets, text, nd_path,
                   nd_dentry, prior_refs,
                   dcache, uaf>>

\* Mutant: kmalloc's failure returns at once.
AllocFailTargetLeak == "return"

\* Where readlink goes when kmalloc fails (line 138) and when d_path fails
\* (line 145).
AllocFailTarget == "out_mntput"

PathFailTarget == "out_free"

\* The labels that run mntput before returning (lines 149-153).
ReachesMntput(label) == label \in {"out_free", "out_mntput"}

\* mntfs_readlink, lines 130-153.  error starts as -ENOENT and is only set by
\* vfs_readlink.
ReadlinkBody ==
    /\ pc = "found"
    /\ op = "readlink"
    /\ \E how \in {"kmalloc_fails", "d_path_fails", "ok"} :
         LET label == IF how = "kmalloc_fails" THEN AllocFailTarget
                      ELSE IF how = "d_path_fails" THEN PathFailTarget
                      ELSE "out_free"
         IN  /\ nomem' = (how # "ok")
             /\ ret' = IF how = "ok" THEN "OK" ELSE "ENOENT"
             /\ text' = IF how = "ok" THEN d_path(mnt) ELSE text
             /\ IF ReachesMntput(label)
                THEN /\ mnt_count' = mntput(mnt_count, mnt)
                     /\ state' = AfterPut(state, mnt_count, mnt)
                     /\ puts' = puts + 1
                ELSE UNCHANGED <<mnt_count, state, puts>>
    /\ pc' = "done"
    /\ UNCHANGED <<ctx, mnt_id, list>>
    /\ UNCHANGED readdirVars
    /\ UNCHANGED histVars
    /\ UNCHANGED <<op, name, id, cur, mnt, gets, d_inode, nd_path,
                   nd_dentry, prior_refs,
                   dcache, uaf>>
    /\ walked' = walked

\* Mutant: the handle is put before the position takes its reference.
FollowStepsPutFirst == <<"install", "mntput", "path_get">>

\* The statements of mntfs_follow after find, in program order: lines
\* 165-166, line 167 and line 169.
FollowSteps == <<"install", "path_get", "mntput">>

\* The thread's position before each of them.
FollowPcs == <<"found", "follow2", "follow3">>

\* After the k-th statement: the next one, or return NULL (line 171).
FollowAdvance(k) ==
    /\ pc' = IF k = Len(FollowSteps) THEN "done" ELSE FollowPcs[k + 1]
    /\ ret' = IF k = Len(FollowSteps) THEN "OK" ELSE ret

\* mnt->mnt_root (line 166): the root dentry of a vfsmount, named by its
\* record.
mnt_root(r) == r

\* Mutant: no reference is taken for the position.
path_get_skip(cnt, r) == cnt

\* path_get(&nd->path): a reference on the vfsmount the position designates.
path_get(cnt, r) == mntget(cnt, r)

\* mntfs_follow, lines 165-166: install the target.
FollowInstall(k) ==
    /\ pc = FollowPcs[k]
    /\ op = "follow"
    /\ FollowSteps[k] = "install"
    /\ nd_path' = mnt
    /\ nd_dentry' = mnt_root(mnt)
    /\ FollowAdvance(k)
    /\ UNCHANGED tableVars
    /\ UNCHANGED readdirVars
    /\ UNCHANGED histVars
    /\ UNCHANGED <<op, name, id, cur, mnt, gets, puts, text, d_inode,
                   prior_refs, dcache, uaf>>
    /\ UNCHANGED callVars

\* mntfs_follow, line 167: the position takes its own reference.
FollowGet(k) ==
    /\ pc = FollowPcs[k]
    /\ op = "follow"
    /\ FollowSteps[k] = "path_get"
    /\ IF nd_path = PRIOR
       THEN prior_refs' = prior_refs + 1 /\ mnt_count' = mnt_count
       ELSE prior_refs' = prior_refs /\ mnt_count' = path_get(mnt_count, nd_path)
    /\ FollowAdvance(k)
    /\ UNCHANGED <<ctx, state, mnt_id, list>>
    /\ UNCHANGED readdirVars
    /\ UNCHANGED histVars
    /\ UNCHANGED <<op, name, id, cur, mnt, gets, puts, text, d_inode, nd_path,
                   nd_dentry,
                   dcache, uaf>>
    /\ UNCHANGED callVars

\* mntfs_follow, line 169: find's handle is put.
FollowPut(k) ==
    /\ pc = FollowPcs[k]
    /\ op = "follow"
    /\ FollowSteps[k] = "mntput"
    /\ mnt_count' = mntput(mnt_count, mnt)
    /\ state' = AfterPut(state, mnt_count, mnt)
    /\ puts' = puts + 1
    /\ FollowAdvance(k)
    /\ UNCHANGED <<ctx, mnt_id, list>>
    /\ UNCHANGED readdirVars
    /\ UNCHANGED histVars
    /\ UNCHANGED <<op, name, id, cur, mnt, gets, text, d_inode, nd_path,
                   nd_dentry,
                   prior_refs, dcache, uaf>>
    /\ UNCHANGED callVars


\* ------------------------------------------------------------ mntfs_readdir
\* The walk of a detached record never ends (its next is itself); the model
\* stops counting there.
IdxCap == MaxMounts + 1

StartPositions == 0..(MaxMounts + 1)

\* Mutant: a strict comparison.
ShouldEmitStrict(pos, i) == pos < i

\* Line 105.
ShouldEmit(pos, i) == pos <= i

\* Mutant: the position is not moved past the entry.
PosAfterSame(i) == i

\* Line 109.
PosAfter(i) == i + 1

\* Lines 106-108: the entry filldir is handed for a record with mount id m
\* while f_pos is pos.
DirEntry(m, pos) ==
    [name |-> SnprintfName(m), ino |-> IntToULong(mnt_inode_of(m)),
     type |-> "DT_LNK", offset |-> pos]

\* Lines 95-101 and the walk's first element.
ReaddirEnter ==
    /\ idx' = 0
    /\ out' = <<>>
    /\ refused' = FALSE
    /\ IF NsMissing(ctx)
       THEN ret' = "OK" /\ pc' = "done" /\ cur' = cur /\ walked' = walked
       ELSE ret' = "none" /\ pc' = "rd_scan" /\ cur' = ListFirst /\ walked' = TRUE
    /\ nomem' = nomem

\* readdir on a file just opened and positioned at p.
ReaddirCall(p) ==
    /\ pc = "idle"
    /\ op' = "readdir"
    /\ f_pos' = p
    /\ startPos' = p
    /\ calls' = 1
    /\ ReaddirEnter
    /\ UNCHANGED tableVars
    /\ UNCHANGED lookupVars
    /\ UNCHANGED histVars
    /\ UNCHANGED <<dcache, uaf>>

\* readdir again on the same file, from where the last call left f_pos.
ReaddirResume ==
    /\ pc = "done"
    /\ op = "readdir"
    /\ calls < MaxCalls
    /\ startPos' = f_pos
    /\ calls' = calls + 1
    /\ ReaddirEnter
    /\ UNCHANGED tableVars
    /\ UNCHANGED lookupVars
    /\ UNCHANGED histVars
    /\ UNCHANGED <<op, f_pos, dcache, uaf>>

\* Lines 104-112: one iteration.  filldir's return value is not looked at.
ReaddirStep ==
    /\ pc = "rd_scan"
    /\ cur # HEAD
    /\ idx < IdxCap
    /\ uaf' = (uaf \/ state[cur] = "free")
    /\ IF ShouldEmit(f_pos, idx)
       THEN /\ \E accepted \in BOOLEAN :
                 /\ out' = IF accepted
                           THEN Append(out, DirEntry(mnt_id[cur], f_pos))
                           ELSE out
                 /\ refused' = (refused \/ ~accepted)
            /\ f_pos' = PosAfter(idx)
       ELSE UNCHANGED <<out, refused, f_pos>>
    /\ idx' = idx + 1
    /\ cur' = ListNext(cur)
    /\ UNCHANGED tableVars
    /\ UNCHANGED lookupVars
    /\ UNCHANGED histVars
    /\ UNCHANGED <<pc, op, ret, startPos, calls, dcache>>
    /\ UNCHANGED callVars

\* Lines 114-115.
ReaddirEnd ==
    /\ pc = "rd_scan"
    /\ cur = HEAD
    /\ ret' = "OK"
    /\ pc' = "done"
    /\ UNCHANGED tableVars
    /\ UNCHANGED lookupVars
    /\ UNCHANGED histVars
    /\ UNCHANGED readdirVars
    /\ UNCHANGED <<op, cur, dcache, uaf>>
    /\ UNCHANGED callVars

\* ------------------------------------------------------------------ return
\* The operation returns to the VFS.  The VFS puts the dentry, which stays in
\* the dentry cache only if d_delete did not say otherwise; a walk that
\* followed the link ends and puts the position follow_link installed; a
\* directory file is closed.
Return ==
    /\ pc = "done"
    /\ dcache' = IF op = "lookup" /\ ret = "OK" /\ mntfs_dentry_delete(name) # 1
                 THEN (dcache \ Cached(name)) \cup
                          {[name |-> name, inode |-> d_inode]}
                 ELSE dcache \ Cached(name)
    /\ IF nd_path # PRIOR
       THEN /\ mnt_count' = mntput(mnt_count, nd_path)
            /\ state' = AfterPut(state, mnt_count, nd_path)
       ELSE UNCHANGED <<mnt_count, state>>
    /\ pc' = "idle"
    /\ op' = "none"
    /\ name' = <<>>
    /\ id' = 0
    /\ cur' = HEAD
    /\ mnt' = HEAD
    /\ ret' = "none"
    /\ gets' = 0
    /\ puts' = 0
    /\ text' = <<>>
    /\ d_inode' = NoInode
    /\ f_pos' = 0
    /\ idx' = 0
    /\ out' = <<>>
    /\ startPos' = 0
    /\ refused' = FALSE
    /\ calls' = 0
    /\ nd_path' = PRIOR
    /\ nd_dentry' = PRIOR
    /\ prior_refs' = 1
    /\ chgPre' = FALSE
    /\ chgScan' = FALSE
    /\ removedPre' = FALSE
    /\ changes' = 0
    /\ walked' = FALSE
    /\ nomem' = FALSE
    /\ uaf' = FALSE
    /\ UNCHANGED <<ctx, mnt_id, list>>

Next ==
    \/ \E r \in Mnts, m \in MountIds : Mount(r, m)
    \/ \E r \in Mnts : Unmount(r)
    \/ \E o \in Ops, n \in Names : Start(o, n)
    \/ FindEnter
    \/ ScanEnd
    \/ ScanStep
    \/ ScanFault
    \/ LookupBody
    \/ ReadlinkBody
    \/ \E k \in 1..Len(FollowSteps) : FollowInstall(k)
    \/ \E k \in 1..Len(FollowSteps) : FollowGet(k)
    \/ \E k \in 1..Len(FollowSteps) : FollowPut(k)
    \/ \E p \in StartPositions : ReaddirCall(p)
    \/ ReaddirResume
    \/ ReaddirStep
    \/ ReaddirEnd
    \/ Return

Spec == Init /\ [][Next]_vars

TypeOK ==
    /\ ctx \in {"no_nsproxy", "no_mnt_ns", "ok"}
    /\ \A r \in Mnts : state[r] \in {"free", "live"} /\ mnt_id[r] \in MountIds
    /\ pc \in {"idle", "find", "scan", "found", "follow2", "follow3", "rd_scan",
               "done", "oops"}
    /\ ret \in {"none", "OK", "ENOENT", "ENAMETOOLONG"}
    /\ cur \in Mnts \cup {HEAD}
    /\ nd_path \in Mnts \cup {PRIOR}
    /\ nd_dentry \in Mnts \cup {PRIOR}
    /\ \A r \in Mnts : mnt_count[r] \in 0..3


\* ---------------------------------------------------------------- properties
Returned == pc = "done" /\ op \in Ops

\* The table is as it was when the call was made.
Unchanged == ~chgPre /\ ~chgScan

\* The record on the list that has mount id m.
RecordOf(m) == CHOOSE r \in Mnts : InList(r) /\ mnt_id[r] = m

RootNodeId == IntToULong(ROOT_INO)

to_node_id(m) == IntToULong(mnt_inode_of(m))

\* The references a record is owed: the table's, and the walk's position.
Owed(r) == (IF InList(r) THEN 1 ELSE 0) + (IF nd_path = r THEN 1 ELSE 0)

\* C1: when lookup, readlink or follow_link returns, every handle find
\* acquired has been released exactly once (also when kmalloc or d_path
\* failed), no record's count keeps a reference of the call, and a call whose
\* find failed acquired and released nothing.
C1_NoHandleLeak ==
    Returned =>
        /\ gets = puts
        /\ gets = (IF mnt = HEAD THEN 0 ELSE 1)
        /\ \A r \in Mnts : mnt_count[r] = Owed(r)

\* C1's case: readlink found the mount, an allocation failed, and the handle
\* was released.
C1_Witness ==
    /\ Returned /\ op = "readlink" /\ nomem
    /\ gets = 1 /\ puts = 1 /\ ret = "ENOENT"

\* C2: a call whose mount was unmounted between the parse of the name and the
\* start of the walk, and is on the list neither then nor later, returns
\* ENOENT, holds no handle and delivers no node, text or redirect.
C2_RemovedBeforeScan ==
    (Returned /\ removedPre /\ ~chgScan /\ id \notin TableIds) =>
        /\ ret = "ENOENT"
        /\ gets = 0 /\ mnt = HEAD
        /\ d_inode = NoInode /\ text = <<>> /\ nd_path = PRIOR

\* C2's case: the walk went over a table that still holds another mount.
C2_Witness ==
    /\ Returned /\ removedPre /\ ~chgScan /\ id \notin TableIds
    /\ walked /\ list # <<>> /\ ret = "ENOENT"

\* The entry readdir owes for the k-th record of the list.
ExpectedEntry(k) ==
    [name |-> FormatD(mnt_id[list[k]]), ino |-> to_node_id(mnt_id[list[k]]),
     type |-> "DT_LNK", offset |-> k - 1]

ReaddirReturned == pc = "done" /\ op = "readdir"

\* C3: readdir from position 0 on an unchanging table, with a consumer that
\* accepts everything, delivers one entry per record in list order: the
\* decimal mount id, its node id, DT_LNK, position i; none is the root's.
C3_ReaddirFromZero ==
    (ReaddirReturned /\ calls = 1 /\ startPos = 0 /\ ~chgScan /\ ~refused) =>
        /\ Len(out) = Len(list)
        /\ \A k \in 1..Len(out) : out[k] = ExpectedEntry(k)
        /\ \A k \in 1..Len(out) : out[k].ino # RootNodeId

C3_Witness ==
    /\ ReaddirReturned /\ calls = 1 /\ startPos = 0 /\ ~chgScan /\ ~refused
    /\ Len(list) >= 2 /\ Len(out) = Len(list)
    /\ \E k \in 1..Len(list) : mnt_id[list[k]] = IntMax

\* C4: readdir from position p on an unchanging table of n records delivers
\* exactly the entries of index >= p, in order, and leaves the position at n
\* (at p when p > n); a call resumed from there delivers nothing.
C4_ReaddirResume ==
    (ReaddirReturned /\ ~chgScan) =>
        LET p == startPos
            n == Len(list)
        IN  /\ f_pos = (IF p <= n THEN n ELSE p)
            /\ ~refused =>
                 /\ Len(out) = (IF p <= n THEN n - p ELSE 0)
                 /\ \A j \in 1..Len(out) : out[j] = ExpectedEntry(p + j)
            /\ calls >= 2 => (out = <<>> /\ f_pos = startPos)

C4_Witness ==
    /\ ReaddirReturned /\ ~chgScan /\ ~refused /\ calls = 1
    /\ startPos = 1 /\ Len(list) = 2 /\ Len(out) = 1

C4_WitnessResumed ==
    /\ ReaddirReturned /\ ~chgScan /\ calls = 2
    /\ Len(list) = 2 /\ startPos = 2 /\ out = <<>>

\* C5: on a table that did not change during the call, the result is that of
\* the table as it now is: the record that now has the id (its node id, its
\* root's path, the redirect to it), and ENOENT when no record has it,
\* whatever earlier calls and mounts there were.  (readlink fails for a record
\* on the list only when kmalloc or d_path failed.)
C5_LiveTableOnly ==
    (Returned /\ Unchanged /\ ParseName(name).err = "") =>
        LET want == ParseName(name).id
        IN  IF want \in TableIds
            THEN /\ op = "lookup" =>
                      /\ ret = "OK"
                      /\ nomem \/ d_inode = [err |-> FALSE, ino |-> to_node_id(want)]
                 /\ op = "readlink" =>
                      nomem \/ (ret = "OK" /\ text = d_path(RecordOf(want)))
                 /\ op = "follow" => (ret = "OK" /\ nd_path = RecordOf(want))
            ELSE /\ ret = "ENOENT"
                 /\ d_inode = NoInode /\ text = <<>> /\ nd_path = PRIOR

\* C5's case: mount 7 was once in slot 2, was unmounted, and is now the mount
\* in slot 1; readlink reports slot 1's root.
C5_Witness ==
    /\ Returned /\ Unchanged /\ op = "readlink" /\ name = <<"7">>
    /\ ret = "OK" /\ text = d_path(1)
    /\ state[2] = "free" /\ mnt_id[2] = 7

\* C6: for every mount id on the list, the name readdir gives it parses back
\* to that id, and lookup of that name (on an unchanging table) succeeds and
\* binds the node id readdir reports for it.
C6_RoundTrip ==
    \A k \in 1..Len(list) :
        LET m == mnt_id[list[k]]
            e == DirEntry(m, 0)
            parsed == ParseName(e.name)
        IN  /\ parsed.err = ""
            /\ parsed.id = m
            /\ (Returned /\ op = "lookup" /\ Unchanged /\ name = e.name) =>
                   /\ ret = "OK"
                   /\ nomem \/ d_inode = [err |-> FALSE, ino |-> e.ino]

C6_Witness ==
    /\ Returned /\ op = "lookup" /\ Unchanged /\ ret = "OK" /\ ~nomem
    /\ name = FormatD(IntMax) /\ IntMax \in TableIds /\ 0 \in TableIds

\* C7: mount id + 1000 in int arithmetic never gives two mount ids the same
\* node id, nor any of them the root's: over all the mount ids the records
\* hold or held, distinct ids have distinct node ids and none has the root's;
\* no record on the list shares its node id with another record on the list;
\* and no node lookup binds or readdir reports is the root's.
C7_NodeIdsDistinct ==
    /\ \A r \in Mnts :
         LET nr == to_node_id(mnt_id[r])
         IN  /\ nr # RootNodeId
             /\ mnt_inode_of(mnt_id[r]) # ROOT_INO
             /\ \A q \in Mnts :
                  (mnt_id[q] # mnt_id[r] \/ (q # r /\ InList(q) /\ InList(r)))
                      => to_node_id(mnt_id[q]) # nr
    /\ ~d_inode.err => d_inode.ino # RootNodeId
    /\ \A k \in 1..Len(out) : out[k].ino # RootNodeId

C7_Witness ==
    /\ Len(list) = 2
    /\ {0, IntMax} \subseteq TableIds
    /\ Returned /\ op = "lookup" /\ name = <<"0">> /\ ret = "OK" /\ ~nomem

\* C8: lookup of "0" succeeds exactly when mount 0 is on the list; lookup of
\* a longer name (within NAME_MAX) that starts with '0' returns ENOENT
\* whatever the list holds, without a walk and without a handle.
C8_LeadingZero ==
    /\ (Returned /\ op = "lookup" /\ Unchanged /\ name = <<"0">>) =>
           (ret = "OK" <=> 0 \in TableIds)
    /\ (Returned /\ op = "lookup" /\ Len(name) >= 2 /\ Len(name) <= NAME_MAX
                 /\ name[1] = "0") =>
           (ret = "ENOENT" /\ ~walked /\ gets = 0 /\ d_inode = NoInode)

C8_Witness ==
    /\ Returned /\ op = "lookup" /\ name = <<"0", "7">>
    /\ 7 \in TableIds /\ ret = "ENOENT"

C8_WitnessZero ==
    /\ Returned /\ op = "lookup" /\ name = <<"0">> /\ Unchanged
    /\ 0 \in TableIds /\ ret = "OK"

\* C9: a name longer than NAME_MAX gets ENAMETOOLONG from lookup, readlink and
\* follow_link, never ENOENT, whatever its characters and whatever the list
\* holds, before any other rule and without a walk.
C9_NameTooLong ==
    (Returned /\ Len(name) > NAME_MAX) =>
        (ret = "ENAMETOOLONG" /\ ~walked /\ gets = 0)

C9_Witness ==
    /\ Returned /\ op = "readlink" /\ name = LongName("0", "7")
    /\ ret = "ENAMETOOLONG" /\ list # <<>>

\* C10: lookup of a name (within NAME_MAX) that is empty or holds a character
\* other than '0'-'9' returns ENOENT whatever the list holds.
C10_DigitsOnly ==
    (Returned /\ op = "lookup" /\ Len(name) <= NAME_MAX
              /\ (name = <<>> \/ \E k \in 1..Len(name) : ~IsDigit(name[k]))) =>
        ret = "ENOENT"

\* C11: a task without a mount namespace (no nsproxy, or an nsproxy whose
\* mnt_ns is NULL) gets ENOENT from lookup, readlink and follow_link of every
\* name that parses; no list is walked, no handle is taken and nothing is
\* delivered.
C11_NoNamespace ==
    (Returned /\ ctx \in {"no_nsproxy", "no_mnt_ns"} /\ Cached(name) = {}
              /\ ParseName(name).err = "") =>
        /\ ret = "ENOENT"
        /\ ~walked
        /\ gets = 0 /\ puts = 0 /\ mnt = HEAD
        /\ d_inode = NoInode /\ text = <<>> /\ nd_path = PRIOR

\* C11's case: the nsproxy exists but has no mount namespace.
C11_Witness ==
    /\ Returned /\ op = "follow" /\ ctx = "no_mnt_ns"
    /\ name = <<"7">> /\ ret = "ENOENT"

C11_WitnessNoProxy ==
    /\ Returned /\ op = "lookup" /\ ctx = "no_nsproxy"
    /\ name = <<"0">> /\ ret = "ENOENT"

\* C12: an allocation failure is reported as such: lookup whose mntfs_iget
\* failed returns ENOMEM and binds no inode to the dentry, and readlink whose
\* kmalloc or d_path failed returns ENOMEM, not ENOENT and not success.
C12_AllocFailureReported ==
    (Returned /\ nomem) =>
        /\ ret = "ENOMEM"
        /\ op = "lookup" => d_inode = NoInode

\* C13: no error is swallowed: readdir by a task without a mount namespace
\* does not return success with an empty listing, and lookup does not return
\* success after mntfs_iget failed.
C13_NoErrorSwallowed ==
    /\ (ReaddirReturned /\ ctx \in {"no_nsproxy", "no_mnt_ns"}) => ret # "OK"
    /\ (Returned /\ op = "lookup" /\ nomem) => ret # "OK"

\* References on record r beyond the one its place on the list holds.
HeldRefs(r) == mnt_count[r] - (IF InList(r) THEN 1 ELSE 0)

\* C14: when follow_link returns success for the name of mount id m, nd->path
\* is the vfsmount find returned for m together with that vfsmount's root
\* dentry, nothing of the position it came from is still held, and the new
\* position holds one reference of its own, the only one the call leaves.
C14_FollowRedirect ==
    (Returned /\ op = "follow" /\ ret = "OK") =>
        /\ nd_path # PRIOR
        /\ nd_path = mnt
        /\ mnt_id[nd_path] = id
        /\ nd_dentry = mnt_root(nd_path)
        /\ prior_refs = 0
        /\ HeldRefs(nd_path) = 1
        /\ \A r \in Mnts : r # nd_path => HeldRefs(r) = 0

\* C14's case: the second mount of a two-entry list is the target.
C14_Witness ==
    /\ Returned /\ op = "follow" /\ ret = "OK" /\ name = <<"7">>
    /\ Len(list) = MaxMounts /\ list[MaxMounts] = nd_path
    /\ state[nd_path] = "live" /\ mnt_id[nd_path] = 7

\* C15: inside follow_link the position it came from is released once, at
\* entry, and stays released; it is released before the target is installed;
\* and from the instant nd->path designates the target to the return, the
\* call holds a reference on the target (find's handle until the position has
\* its own, which is taken before the handle is put).
C15_FollowOrdering ==
    /\ (op = "follow" /\ pc # "idle") => prior_refs = 0
    /\ (op = "follow" /\ nd_path # PRIOR) =>
           /\ prior_refs = 0
           /\ HeldRefs(nd_path) >= 1
    /\ (op = "follow" /\ puts > 0) =>
           (nd_path = mnt /\ HeldRefs(nd_path) = 1)

\* C15's case: the target is installed and only find's handle holds it.
C15_Witness ==
    /\ op = "follow" /\ pc = "follow2" /\ nd_path = mnt /\ nd_path # PRIOR
    /\ puts = 0 /\ HeldRefs(nd_path) = 1 /\ InList(nd_path)

\* C15's later case: both references are held, just before the handle is put.
C15_WitnessBoth ==
    /\ op = "follow" /\ pc = "follow3" /\ nd_path = mnt
    /\ puts = 0 /\ HeldRefs(nd_path) = 1 + 1

\* C16: readdir takes a handle (mntget) on each record it builds an entry for
\* before it reads the record's id and puts it afterwards: in a call whose
\* entries were all accepted, acquisitions and releases both equal the number
\* of entries.
C16_ReaddirHandles ==
    (ReaddirReturned /\ ~refused) =>
        (gets = Len(out) /\ puts = Len(out))

\* C17: however unmount interleaves with a walk of find or readdir, no step
\* of the walk reads the id of, or takes a reference on, a destroyed record,
\* and a record find took a reference on is alive until the handle is put.
C17_NoDestroyedRecord ==
    /\ ~uaf
    /\ (op \in Ops /\ mnt # HEAD /\ gets > puts) => state[mnt] = "live"

\* C18: f_pos never moves past an entry the consumer did not take: during and
\* after a readdir call f_pos is the position the call began at plus the
\* number of entries delivered, so a refused entry is offered again by the
\* next call.
C18_CursorNotPastRefused ==
    (op = "readdir" /\ pc \in {"rd_scan", "done"}) =>
        f_pos = startPos + Len(out)

\* C19: a successful lookup, readlink or follow_link of a name made of digits
\* only resolved the mount whose id, written in decimal, is that name; a name
\* whose value does not fit int (the id of a live mount plus 2^32) does not
\* resolve that mount.
C19_NoNarrowing ==
    (Returned /\ ret = "OK" /\ mnt # HEAD
              /\ \A k \in 1..Len(name) : IsDigit(name[k])) =>
        name = FormatD(mnt_id[mnt])

\* C20: when follow_link fails, the position it hands back is not one it has
\* released: nd->path still designates the position the walk came from only
\* if the call still holds that position's reference.
C20_FailedFollowConsistent ==
    (Returned /\ op = "follow" /\ ret # "OK") =>
        ~(nd_path = PRIOR /\ nd_dentry = PRIOR /\ prior_refs = 0)

====
